---- MODULE Spec2Model ----
(***************************************************************************)
(* A model of calipso.py: the DataObject / CalipsoObject collection, the   *)
(* single-shot reducer, the HDF5 loader and the epoch conversion.          *)
(*                                                                         *)
(* Values.  Python's None is the record NoneV.  A numpy array is a record  *)
(* [kind, shape, data] with the data flat in row-major order, as numpy     *)
(* stores it, so that reshape changes the shape alone.  Integer elements   *)
(* are integers; the elements of a floating-point result are exact         *)
(* rationals [num, den] (den = 0 is the result of a division by zero).     *)
(* A collection's mapping (all_arrays) is a dict: its keys in insertion    *)
(* order and its entries.                                                  *)
(***************************************************************************)
EXTENDS Integers, Sequences, FiniteSets, TLC

VARIABLES
  heap,       \* the two collections the caller holds: name -> all_arrays
  populated,  \* per collection, the names that have ever been bound to data
  h5file,     \* the handle the latest load opened: "none", "open", "closed"
  fs,         \* the file at the path the loads read
  env,        \* the process: its time zone and its h5py
  call,       \* the latest call and its arguments as they were at the call
  ret         \* what the latest call returned or raised

vars == <<heap, populated, h5file, fs, env, call, ret>>

(***************************************************************************)
(* Bounds of the model.                                                    *)
(***************************************************************************)
\* Footprints (profiles) of the single-shot group handed to the reducer.
MaxFootprints == 2

\* Top-level names of a file handed to read_calipso_h5.
MaxDatasets == 2

\* Profiles of a file or of a collection before concatenation.
MaxProfiles == 1

\* Concatenation is taken while no field grows beyond this many rows.
MaxLen == 2

(***************************************************************************)
(* Values                                                                  *)
(***************************************************************************)
NoneV == [kind |-> "None"]

Arr(shape, data) == [kind |-> "ndarray", shape |-> shape, data |-> data]

IsArr(v) == v.kind = "ndarray"

\* arr.ndim
Ndim(v) == Len(v.shape)

\* len(arr): the first dimension
PyLen(v) == v.shape[1]

Abs(x) == IF x < 0 THEN -x ELSE x

RECURSIVE Gcd(_, _)
Gcd(a, b) == IF b = 0 THEN a ELSE Gcd(b, a % b)

RECURSIVE Pow2(_)
Pow2(k) == IF k = 0 THEN 1 ELSE 2 * Pow2(k - 1)

\* The rational n/d in lowest terms; d = 0 keeps only the sign of n
\* (0/0 is NaN, a nonzero n over 0 an infinity).
Rat(n, d) ==
  IF d = 0 THEN [num |-> IF n > 0 THEN 1 ELSE IF n < 0 THEN -1 ELSE 0, den |-> 0]
  ELSE LET g == Gcd(Abs(n), Abs(d))
           s == IF d < 0 THEN -1 ELSE 1
       IN  [num |-> s * (n \div g), den |-> s * (d \div g)]

IsNaN(q) == q.num = 0 /\ q.den = 0

\* ndarray.astype(np.int8) of an integer: two's complement wrap to 8 bits.
AsInt8(x) == ((x + 128) % 256) - 128

RECURSIVE ScaleUp(_, _, _)
ScaleUp(a, b, k) ==
  IF a >= 8388608 * b THEN <<a, k>> ELSE ScaleUp(2 * a, b, k + 1)

RoundHalfEven(a, b) ==
  LET q == a \div b
      r == a % b
  IN  IF 2 * r < b THEN q
      ELSE IF 2 * r > b THEN q + 1
      ELSE IF q % 2 = 0 THEN q ELSE q + 1

\* ndarray.astype(np.float32) of one element: the nearest value with a
\* 24-bit significand, ties to even (magnitudes in the normal range).
AsFloat32(q) ==
  IF q.den = 0 \/ q.num = 0 THEN q
  ELSE LET sc == ScaleUp(Abs(q.num), q.den, 0)
           m  == RoundHalfEven(sc[1], q.den)
       IN  Rat((IF q.num < 0 THEN -1 ELSE 1) * m, Pow2(sc[2]))

(***************************************************************************)
(* numpy operations used by the reducer                                    *)
(***************************************************************************)
\* arr.reshape(-1, c) is defined when the size is a multiple of c.
CanReshape(a, c) == Len(a.data) % c = 0

Reshape(a, c) == Arr(<<Len(a.data) \div c, c>>, a.data)

\* arr[:, 0] of a 2-D array
Col0(a) ==
  Arr(<<a.shape[1]>>, [i \in 1..a.shape[1] |-> a.data[(i - 1) * a.shape[2] + 1]])

RECURSIVE SumSeq(_)
SumSeq(s) == IF s = <<>> THEN 0 ELSE Head(s) + SumSeq(Tail(s))

\* np.sum(arr, axis=1) of a 2-D array
SumAxis1(a) ==
  Arr(<<a.shape[1]>>,
      [i \in 1..a.shape[1] |->
         SumSeq(SubSeq(a.data, (i - 1) * a.shape[2] + 1, i * a.shape[2]))])

\* arr == 0, with True as 1 so that np.sum counts
EqZero(a) ==
  Arr(a.shape, [i \in 1..Len(a.data) |-> IF a.data[i] = 0 THEN 1 ELSE 0])

\* np.where(arr > 0, arr, 0.0)
ClampPositive(a) ==
  Arr(a.shape, [i \in 1..Len(a.data) |-> IF a.data[i] > 0 THEN a.data[i] ELSE 0])

\* arr.astype(np.int8)
ArrAsInt8(a) == Arr(a.shape, [i \in 1..Len(a.data) |-> AsInt8(a.data[i])])

\* c - arr, on int8 operands
ScalarMinus(c, a) == Arr(a.shape, [i \in 1..Len(a.data) |-> AsInt8(c - a.data[i])])

\* arr + c
PlusScalar(a, c) == Arr(a.shape, [i \in 1..Len(a.data) |-> a.data[i] + c])

\* The value of an expression, computed once: S is the singleton of the
\* results computed from it.
Only(S) == CHOOSE x \in S : TRUE

(***************************************************************************)
(* DataObject and CalipsoObject                                            *)
(***************************************************************************)
\* The result of a call: its status ("ok" or the exception raised) and the
\* mapping of the object it worked on, as the call left it.
Ok(obj) == [status |-> "ok", obj |-> obj]

Raise(e, obj) == [status |-> e, obj |-> obj]

\* The keys of the mapping CalipsoObject.__init__ builds, in the order of the
\* dict literal (a repeated key keeps its first place).
SchemaSeq ==
  <<"longitude", "latitude", "imager_linnum", "imager_pixnum", "elevation",
    "cloud_fraction", "validation_height", "sec_1970",
    "minimum_laser_energy_532", "layer_top_altitude", "layer_top_temperature",
    "layer_top_pressure", "midlayer_temperature", "layer_base_altitude",
    "layer_base_pressure", "number_layers_found", "igbp_surface_type",
    "nsidc_surface_type", "snow_ice_surface_type", "profile_time_tai",
    "feature_classification_flags", "day_night_flag",
    "feature_optical_depth_532", "tropopause_height", "profile_id",
    "column_optical_depth_tropospheric_aerosols_532_5km",
    "column_optical_depth_tropospheric_aerosols_532",
    "column_optical_depth_aerosols_532_5km", "column_optical_depth_aerosols_532",
    "column_optical_depth_cloud_532_5km", "feature_optical_depth_532_5km",
    "layer_top_altitude_5km", "layer_top_pressure_5km", "number_layers_found_5km",
    "detection_height_5km", "total_optical_depth_5km",
    "feature_optical_depth_532_top_layer_5km",
    "cfc_single_shots_1km_from_5km_file",
    "average_cloud_top_pressure_single_shots",
    "average_cloud_top_pressure_single_shots_5km",
    "average_cloud_top_single_shots", "average_cloud_top_single_shots_5km",
    "average_cloud_base_single_shots", "average_cloud_base_single_shots_5km",
    "single_shot_data", "cal_modis_cflag", "cloudsat_index" >>

SchemaNames == {SchemaSeq[i] : i \in 1..Len(SchemaSeq)}

\* A dict: its keys in insertion order (the order a for loop visits them)
\* and its entries.
Dict(order, map) == [order |-> order, map |-> map]

\* all_arrays is a dict unless a setattr of the name 'all_arrays' replaced it
\* by an array.
IsDict(all_arrays) == "order" \in DOMAIN all_arrays

HasKey(d, k) == k \in DOMAIN d.map

\* d[k] = v: a new key goes last, an existing key keeps its place.
DictSet(d, k, v) ==
  Dict(IF HasKey(d, k) THEN d.order ELSE Append(d.order, k),
       [x \in DOMAIN d.map \cup {k} |-> IF x = k THEN v ELSE d.map[x]])

\* CalipsoObject(): every schema name is a key, bound to None.
CalipsoObject_init == Dict(SchemaSeq, [k \in SchemaNames |-> NoneV])

\* DataObject.__setattr__: the name 'all_arrays' rebinds the mapping itself;
\* any other name is stored in the mapping (an item assignment with a string
\* index, which an ndarray refuses with IndexError).
DataObject_setattr(all_arrays, name, value) ==
  IF name = "all_arrays" THEN Ok(value)
  ELSE IF ~IsDict(all_arrays) THEN Raise("IndexError", all_arrays)
  ELSE Ok(DictSet(all_arrays, name, value))

\* A lookup in the manner of dict.get: a missing name yields None
DataObject_getattr_or_none(all_arrays, name) ==
  IF name = "all_arrays" THEN [status |-> "ok", value |-> all_arrays]
  ELSE IF ~IsDict(all_arrays) THEN [status |-> "IndexError", value |-> NoneV]
  ELSE IF HasKey(all_arrays, name)
       THEN [status |-> "ok", value |-> all_arrays.map[name]]
       ELSE [status |-> "ok", value |-> NoneV]

\* DataObject.__getattr__ (reached for every name but 'all_arrays', which is
\* an ordinary instance attribute): the mapping's entry, KeyError turned
\* into AttributeError; an ndarray in the mapping's place refuses the string
\* index with IndexError, which is not caught.
DataObject_getattr(all_arrays, name) ==
  IF name = "all_arrays" THEN [status |-> "ok", value |-> all_arrays]
  ELSE IF ~IsDict(all_arrays) THEN [status |-> "IndexError", value |-> NoneV]
  ELSE IF HasKey(all_arrays, name)
       THEN [status |-> "ok", value |-> all_arrays.map[name]]
       ELSE [status |-> "AttributeError", value |-> NoneV]

(***************************************************************************)
(* rearrange_calipso_the_single_shot_info                                  *)
(***************************************************************************)
SingleShots == 15

LayersPerShot == 5

Max(a, b) == IF a > b THEN a ELSE b

\* numpy broadcasting of two 1-D lengths
Broadcastable(n, m) == n = m \/ n = 1 \/ m = 1

BIdx(a, i) == IF a.shape[1] = 1 THEN 1 ELSE i

\* 15 - np.sum(data_reshaped_15 == 0, axis=1).astype(np.int8)
NumberCloudy(nlf) ==
  ScalarMinus(SingleShots, ArrAsInt8(SumAxis1(EqZero(Reshape(nlf, SingleShots)))))

\* A reducer that sums the raw first-layer values, fill values included.
FirstLayerNotClamped(data) ==
  Reshape(Col0(Reshape(data, LayersPerShot)), SingleShots)

\* data.reshape(-1, 5)[:, 0].reshape(-1, 15), clamped by np.where(.. > 0, .., 0.0)
FirstLayerClamped(data) ==
  ClampPositive(Reshape(Col0(Reshape(data, LayersPerShot)), SingleShots))

CanFirstLayer(data) ==
  /\ CanReshape(data, LayersPerShot)
  /\ (Len(data.data) \div LayersPerShot) % SingleShots = 0

\* A reducer that divides without the guard on the cloudy count.
MeanWithoutSentinel(cloudy, data) ==
  LET sums == SumAxis1(ClampPositive(Reshape(Col0(Reshape(data, LayersPerShot)),
                                             SingleShots)))
  IN  Arr(<<sums.shape[1]>>,
          [i \in 1..sums.shape[1] |->
             AsFloat32(Rat(sums.data[i], cloudy.data[BIdx(cloudy, i)]))])

\* np.where(cloudy > 0, np.divide(np.sum(arr, axis=1), cloudy), -9.0)
\*   .astype(np.float32)
MeanOfCloudy(cloudy, data) ==
  LET sums == SumAxis1(FirstLayerClamped(data))
      n    == Max(cloudy.shape[1], sums.shape[1])
  IN  Arr(<<n>>,
          [i \in 1..n |->
             LET c == cloudy.data[BIdx(cloudy, i)]
                 s == sums.data[BIdx(sums, i)]
             IN  AsFloat32(IF c > 0 THEN Rat(s, c) ELSE Rat(-9, 1))])

\* One of the three metric blocks: reshape, mean, setattr.
SetMean(r, cloudy, data, name) ==
  Only({ IF q.status # "ok" THEN q
         ELSE IF ~CanFirstLayer(data) THEN Raise("ValueError", q.obj)
         ELSE IF ~Broadcastable(cloudy.shape[1],
                                Len(data.data) \div (LayersPerShot * SingleShots))
              THEN Raise("ValueError", q.obj)
         ELSE DataObject_setattr(q.obj, name, MeanOfCloudy(cloudy, data))
       : q \in {r} })

SetIfOk(r, name, value) ==
  Only({ IF q.status # "ok" THEN q ELSE DataObject_setattr(q.obj, name, value)
       : q \in {r} })

rearrange_calipso_the_single_shot_info(retv, singleshotdata) ==
  LET nlf == singleshotdata["ssNumber_Layers_Found"]
  IN  IF ~CanReshape(nlf, SingleShots) THEN Raise("ValueError", retv)
      ELSE
        LET cloudy == NumberCloudy(nlf)
            r1 == DataObject_setattr(retv, "number_cloudy_single_shots",
                                     ArrAsInt8(cloudy))
            r2 == SetIfOk(r1, "single_shot_data",
                          ArrAsInt8(Reshape(nlf, SingleShots)))
            r3 == SetMean(r2, cloudy, singleshotdata["ssLayer_Base_Altitude"],
                          "average_cloud_base_single_shots")
            r4 == SetMean(r3, cloudy, singleshotdata["ssLayer_Top_Pressure"],
                          "average_cloud_top_pressure_single_shots")
        IN  SetMean(r4, cloudy, singleshotdata["ssLayer_Top_Altitude"],
                    "average_cloud_top_single_shots")

(***************************************************************************)
(* DataObject.__add__                                                      *)
(***************************************************************************)
\* An emptiness test that looks for None alone.
IsEmptyNoneOnly(d) == \A k \in DOMAIN d.map : ~IsArr(d.map[k])

\* The loop of lines 70-75: some entry is not None and has len > 0.
IsEmpty(d) ==
  \A k \in DOMAIN d.map : ~(IsArr(d.map[k]) /\ PyLen(d.map[k]) > 0)

\* np.concatenate([a, b]) along axis 0 raises ValueError unless b is an
\* array of a's rank with a's trailing dimensions.
CanConcatenate(a, b) ==
  /\ IsArr(b)
  /\ Ndim(b) = Ndim(a)
  /\ Tail(b.shape) = Tail(a.shape)

\* A concatenation with its operands in the wrong order.
ConcatenateSwapped(a, b) ==
  Arr(<<a.shape[1] + b.shape[1]>> \o Tail(a.shape), b.data \o a.data)

Concatenate(a, b) ==
  Arr(<<a.shape[1] + b.shape[1]>> \o Tail(a.shape), a.data \o b.data)

SegmentNames ==
  {"segment_nwp_geoheight", "segment_nwp_moist", "segment_nwp_pressure",
   "segment_nwp_temp"}

\* The body of the loop of lines 82-109 for one key whose entry in other
\* exists: the new entry of self.
AddEntry(key, mine, theirs) ==
  IF ~IsArr(mine) THEN theirs                      \* AttributeError on None.ndim
  ELSE IF Ndim(mine) = 1 \/ key \in SegmentNames \/ Ndim(mine) = 2
       THEN IF CanConcatenate(mine, theirs)
            THEN Concatenate(mine, theirs)
            ELSE theirs                            \* except ValueError
       ELSE mine

\* Whether the loop body reads other.all_arrays[key] at all: an array of
\* rank 3 or more outside the segment names matches no branch.
ReadsOther(key, mine) ==
  ~IsArr(mine) \/ Ndim(mine) = 1 \/ key \in SegmentNames \/ Ndim(mine) = 2

\* The position of the first key, in self's iteration order, whose loop body
\* reads an entry that other lacks (KeyError); 0 when there is none.
FirstMissing(self, other) ==
  LET bad == {i \in 1..Len(self.order) :
                /\ ReadsOther(self.order[i], self.map[self.order[i]])
                /\ ~HasKey(other, self.order[i])}
  IN  IF bad = {} THEN 0 ELSE CHOOSE i \in bad : \A j \in bad : i <= j

\* The loop of lines 82-109 over self's keys: every key is rewritten from
\* its own two entries, up to the key (if any) that raises KeyError, which
\* leaves the keys before it rewritten and the rest as they were.
AddLoop(self, other) ==
  LET stop == FirstMissing(self, other)
      done == {self.order[i] :
                 i \in 1..(IF stop = 0 THEN Len(self.order) ELSE stop - 1)}
  IN  [status |-> IF stop = 0 THEN "ok" ELSE "KeyError",
       obj |-> Dict(self.order,
                    [k \in DOMAIN self.map |->
                       IF k \in done /\ ReadsOther(k, self.map[k])
                       THEN AddEntry(k, self.map[k], other.map[k])
                       ELSE self.map[k]])]

\* self + other: the status, which operand is returned ("self" or "other")
\* and self's mapping as the call leaves it.
DataObject_add(self, other) ==
  IF ~IsDict(self) \/ ~IsDict(other)
  THEN [status |-> "AttributeError", returns |-> "none", obj |-> self]
  ELSE IF IsEmpty(self) THEN [status |-> "ok", returns |-> "other", obj |-> self]
  ELSE IF IsEmpty(other) THEN [status |-> "ok", returns |-> "self", obj |-> self]
  ELSE Only({ [status |-> r.status,
                returns |-> IF r.status = "ok" THEN "self" ELSE "none",
                obj |-> r.obj]
            : r \in {AddLoop(self, other)} })

(***************************************************************************)
(* The file                                                                *)
(***************************************************************************)
\* The top-level names a file of the model may hold, with the code each
\* dataset's values are built from.
DatasetNames ==
  << "Latitude", "Longitude", "Profile_Time", "Snow_Ice_Surface_Type",
     "NSIDC_Surface_Type", "DEM_Surface_Elevation", "Spacecraft_Position",
     "metadata", "Single_Shot_Detection", "ALL_ARRAYS" >>

NameCode(name) == CHOOSE i \in 1..Len(DatasetNames) : DatasetNames[i] = name

\* str.lower() on the names above
Lower(name) ==
  CASE name = "Latitude" -> "latitude"
    [] name = "Longitude" -> "longitude"
    [] name = "Profile_Time" -> "profile_time"
    [] name = "Snow_Ice_Surface_Type" -> "snow_ice_surface_type"
    [] name = "NSIDC_Surface_Type" -> "nsidc_surface_type"
    [] name = "DEM_Surface_Elevation" -> "dem_surface_elevation"
    [] name = "Spacecraft_Position" -> "spacecraft_position"
    [] name = "metadata" -> "metadata"
    [] name = "Single_Shot_Detection" -> "single_shot_detection"
    [] name = "ALL_ARRAYS" -> "all_arrays"

scip_these_larger_variables_until_needed ==
  {"Spacecraft_Position", "Attenuated_Backscatter_Statistics_1064",
   "Attenuated_Backscatter_Statistics_532",
   "Attenuated_Total_Color_Ratio_Statistics",
   "Volume_Depolarization_Ratio_Statistics",
   "Particulate_Depolarization_Ratio_Statistics", "Cirrus_Shape_Parameter",
   "Cirrus_Shape_Parameter_Invalid_Points", "Cirrus_Shape_Parameter_Uncertainty"}

atrain_match_names ==
  [n \in {"Snow_Ice_Surface_Type", "Profile_Time"} |->
     IF n = "Snow_Ice_Surface_Type" THEN "nsidc_surface_type" ELSE "profile_time_tai"]

ExcludedGroups == {"Lidar_Surface_Detection", "metadata_t", "metadata"}

\* The datasets with one column per resolution sample
MultiColumn == {"Latitude", "Longitude", "Profile_Time"}

\* h5file[dataset] read whole: nprof rows; the values carry the dataset's
\* code, the row and the column, so that no two datasets hold the same.
DatasetValue(f, name) ==
  LET c == IF name \in MultiColumn THEN f.ncol ELSE 1
  IN  Arr(<<f.nprof, c>>,
          [i \in 1..(f.nprof * c) |->
             100 * NameCode(name) + 10 * (((i - 1) \div c) + 1) + ((i - 1) % c)])

(***************************************************************************)
(* The Single_Shot_Detection group of a file, built footprint by footprint *)
(* from a footprint profile [cloudy, pat]: cloudy of the 15 shots found    *)
(* layers; pat chooses what the first-layer values look like.              *)
(***************************************************************************)
FillValue == 0 - 9999

ShotIsCloudy(p, s) == ((s * 7) % SingleShots) < p.cloudy

NLayers(p, s) == IF ShotIsCloudy(p, s) THEN 1 + (s % 2) ELSE 0

\* The value of layer l (0 is the first) of shot s (0..14):
\*   pat 1: no first layer anywhere (fill values)
\*   pat 2: first layer 0 everywhere
\*   pat 3: the cloudy shots hold the metric's typical value, the others fill
\*   pat 4: values that do not follow the layer counts (fill, 0, positive)
LayerValue(p, pat, typical, s, l) ==
  IF l > 0 THEN (IF NLayers(p, s) > l THEN typical + 100 * l ELSE FillValue)
  ELSE CASE pat = 1 -> FillValue
         [] pat = 2 -> 0
         [] pat = 3 -> IF ShotIsCloudy(p, s) THEN typical ELSE FillValue
         [] OTHER   -> IF s % 4 = 0 THEN FillValue
                       ELSE IF s % 4 = 1 THEN 0 ELSE typical + s

LayersArray(ps) ==
  Arr(<<Len(ps) * SingleShots, 1>>,
      [i \in 1..(Len(ps) * SingleShots) |->
         NLayers(ps[((i - 1) \div SingleShots) + 1], (i - 1) % SingleShots)])

MetricArray(ps, shift, typical) ==
  Arr(<<Len(ps) * SingleShots, LayersPerShot>>,
      [j \in 1..(Len(ps) * SingleShots * LayersPerShot) |->
         LET shot == (j - 1) \div LayersPerShot
             p    == ps[(shot \div SingleShots) + 1]
         IN  LayerValue(p, ((p.pat + shift) % 4) + 1, typical,
                        shot % SingleShots, (j - 1) % LayersPerShot)])

SSGroup(ps) ==
  [n \in {"ssNumber_Layers_Found", "ssLayer_Base_Altitude",
          "ssLayer_Top_Pressure", "ssLayer_Top_Altitude"} |->
     CASE n = "ssNumber_Layers_Found" -> LayersArray(ps)
       [] n = "ssLayer_Base_Altitude" -> MetricArray(ps, 3, 10)
       [] n = "ssLayer_Top_Pressure"  -> MetricArray(ps, 0, 500)
       [] OTHER                       -> MetricArray(ps, 1, 12)]

\* A file: whether it can be opened, its top-level names in the order
\* h5file.keys() yields them, its number of profiles, the columns of its
\* multi-column datasets, the name (if any) whose read fails with an I/O
\* error, and the arrays of its single-shot group.
File(names, nprof, ncol, unreadable, ps) ==
  [exists |-> TRUE, names |-> names, nprof |-> nprof, ncol |-> ncol,
   unreadable |-> unreadable, ss |-> SSGroup(ps)]

NoFile ==
  [exists |-> FALSE, names |-> <<>>, nprof |-> 0, ncol |-> 0,
   unreadable |-> "", ss |-> SSGroup(<<>>)]

HasName(f, name) == \E i \in 1..Len(f.names) : f.names[i] = name

(***************************************************************************)
(* read_calipso_h5                                                         *)
(***************************************************************************)
\* The result of a load: status, the collection's mapping, and the state
\* of the file handle the call opened ("none", "open" or "closed").
LoadResult(r, handle) == [status |-> r.status, obj |-> r.obj, h5file |-> handle]

\* A loader that lowercases the name and ignores the rename map
CanonicalNameLowerOnly(dataset) == Lower(dataset)

\* name = dataset.lower(), replaced by the rename map's entry
CanonicalName(dataset) ==
  IF dataset \in DOMAIN atrain_match_names
  THEN atrain_match_names[dataset]
  ELSE Lower(dataset)

\* Lines 268-279: the datasets the loop passes over
Skipped(dataset) ==
  \/ dataset = "Single_Shot_Detection"
  \/ dataset \in ExcludedGroups
  \/ dataset \in scip_these_larger_variables_until_needed

\* Lines 283-288: .value, or [:] where the installed h5py has no .value;
\* both read the whole dataset.
ReadDataset(f, dataset, hasValue) == DatasetValue(f, dataset)

\* The loop of lines 267-289 from position i on.
RECURSIVE LoadLoop(_, _, _, _)
LoadLoop(r, f, i, hasValue) ==
  Only({ IF q.status # "ok" \/ i > Len(f.names) THEN q
         ELSE LET dataset == f.names[i]
              IN  IF Skipped(dataset) THEN LoadLoop(q, f, i + 1, hasValue)
                  ELSE IF dataset = f.unreadable THEN Raise("OSError", q.obj)
                  ELSE LoadLoop(DataObject_setattr(q.obj, CanonicalName(dataset),
                                                   ReadDataset(f, dataset, hasValue)),
                                f, i + 1, hasValue)
       : q \in {r} })

\* Lines 256-266: the four .value reads (unguarded) and the reducer.
LoadSingleShots(retv, f, hasValue) ==
  IF ~HasName(f, "Single_Shot_Detection") THEN Ok(retv)
  ELSE IF f.unreadable = "Single_Shot_Detection" THEN Raise("OSError", retv)
  ELSE IF ~hasValue THEN Raise("AttributeError", retv)
  ELSE rearrange_calipso_the_single_shot_info(retv, f.ss)

read_calipso_h5(filename, retv, f, hasValue) ==
  IF filename = "None" THEN LoadResult(Ok(retv), "none")
  ELSE IF ~f.exists THEN LoadResult(Raise("OSError", retv), "none")
  ELSE Only({ LoadResult(r, IF r.status = "ok" THEN "closed" ELSE "open")
            : r \in {LoadLoop(LoadSingleShots(retv, f, hasValue), f, 1, hasValue)} })

(***************************************************************************)
(* read_calipso                                                            *)
(***************************************************************************)
IsLeap(y) == (y % 4 = 0 /\ y % 100 # 0) \/ y % 400 = 0

RECURSIVE DaysBeforeYear(_)
DaysBeforeYear(y) ==
  IF y <= 1970 THEN 0
  ELSE DaysBeforeYear(y - 1) + (IF IsLeap(y - 1) THEN 366 ELSE 365)

\* time.mktime((y, 1, 1, 0, 0, 0, 0, 0, 0)): the tuple is local standard
\* time (tm_isdst = 0), so the result is the UTC instant plus the seconds
\* west of UTC that the zone's standard time had on that date.
Mktime(y, west) == DaysBeforeYear(y) * 24 * 60 * 60 + west

\* Line 303: time.timezone is the zone's present standard offset.
Dsec(e) == Mktime(1993, e.timezone1993) - e.timezone

\* Lines 304-305: dt.days * 24 * 60 * 60
Dsec2 == DaysBeforeYear(1993) * 24 * 60 * 60

\* arr[:, 1] of an array of rank 2
Col1(a) ==
  Arr(<<a.shape[1]>>, [i \in 1..a.shape[1] |-> a.data[(i - 1) * a.shape[2] + 2]])

\* retv.name = retv.name[:, 1]
SelectColumn1(r, name) ==
  Only({ IF q.status # "ok" THEN q
         ELSE LET g == DataObject_getattr(q.obj, name)
              IN  IF g.status # "ok" THEN Raise(g.status, q.obj)
                  ELSE IF ~IsArr(g.value) THEN Raise("TypeError", q.obj)
                  ELSE IF Ndim(g.value) < 2 \/ g.value.shape[2] < 2
                       THEN Raise("IndexError", q.obj)
                  ELSE DataObject_setattr(q.obj, name, Col1(g.value))
       : q \in {r} })

\* setattr(retv, "sec_1970", retv.profile_time_tai + dsec)
SetSec1970(r, dsec) ==
  Only({ IF q.status # "ok" THEN q
         ELSE LET g == DataObject_getattr(q.obj, "profile_time_tai")
              IN  IF g.status # "ok" THEN Raise(g.status, q.obj)
                  ELSE DataObject_setattr(q.obj, "sec_1970",
                                          PlusScalar(g.value, dsec))
       : q \in {r} })

\* read_calipso(filename): the load result, and whether line 307 printed
\* its warning.
read_calipso(filename, f, e) ==
  Only({ Only({ [status |-> r.status, obj |-> r.obj, h5file |-> l.h5file,
                 warning |-> l.status = "ok" /\ Dsec(e) # Dsec2]
              : r \in {SetSec1970(
                         SelectColumn1(
                           SelectColumn1(
                             SelectColumn1([status |-> l.status, obj |-> l.obj],
                                           "latitude"),
                             "longitude"),
                           "profile_time_tai"),
                         Dsec(e))} })
       : l \in {IF filename = "None"
                THEN LoadResult(Ok(CalipsoObject_init), "none")
                ELSE read_calipso_h5(filename, CalipsoObject_init, f, e.hasValue)} })

(***************************************************************************)
(* The state machine: a caller holding two collections, a and b, calls the *)
(* module's operations on them.                                            *)
(***************************************************************************)
Objs == {"a", "b"}

NoCall == [op |-> "none"]

NoRet == [status |-> "none"]

\* The names bound to data in a mapping
BoundNames(d) ==
  IF IsDict(d) THEN {k \in DOMAIN d.map : IsArr(d.map[k])} ELSE {"all_arrays"}

\* The process of the model's default: UTC, an h5py with .value.
UtcEnv == [timezone |-> 0, timezone1993 |-> 0, hasValue |-> TRUE]

\* retv = CalipsoObject()
Create(o) ==
  /\ heap' = [heap EXCEPT ![o] = CalipsoObject_init]
  /\ populated' = [populated EXCEPT ![o] = {}]
  /\ call' = [op |-> "create", obj |-> o]
  /\ ret' = [status |-> "ok"]
  /\ UNCHANGED <<h5file, fs, env>>

\* rearrange_calipso_the_single_shot_info(o, the file's single-shot arrays)
RearrangeStep(o) ==
  \E r \in {rearrange_calipso_the_single_shot_info(heap[o], fs.ss)} :
      /\ heap' = [heap EXCEPT ![o] = r.obj]
      /\ populated' = [populated EXCEPT ![o] = @ \cup BoundNames(r.obj)]
      /\ call' = [op |-> "rearrange", obj |-> o]
      /\ ret' = [status |-> r.status]
      /\ UNCHANGED <<h5file, fs, env>>

\* o = read_calipso_h5(filename, o)
ReadCalipsoH5Step(o, filename) ==
  \E r \in {read_calipso_h5(filename, heap[o], fs, env.hasValue)} :
      /\ heap' = [heap EXCEPT ![o] = r.obj]
      /\ populated' = [populated EXCEPT ![o] = @ \cup BoundNames(r.obj)]
      /\ h5file' = r.h5file
      /\ call' = [op |-> "read_calipso_h5", obj |-> o, filename |-> filename]
      /\ ret' = [status |-> r.status]
      /\ UNCHANGED <<fs, env>>

\* o = read_calipso(filename); when the call raises, o keeps its old value
\* and the object the call was filling is dropped.
ReadCalipsoStep(o, filename) ==
  \E r \in {read_calipso(filename, fs, env)} :
      /\ heap' = IF r.status = "ok" THEN [heap EXCEPT ![o] = r.obj] ELSE heap
      /\ populated' = IF r.status = "ok"
                      THEN [populated EXCEPT ![o] = BoundNames(r.obj)]
                      ELSE populated
      /\ h5file' = r.h5file
      /\ call' = [op |-> "read_calipso", obj |-> o, filename |-> filename]
      /\ ret' = [status |-> r.status, warning |-> r.warning]
      /\ UNCHANGED <<fs, env>>

\* a + b: self is rewritten in place; ret.obj names the operand returned.
AddStep(a, b) ==
  \E r \in {DataObject_add(heap[a], heap[b])} :
      /\ \A k \in BoundNames(r.obj) : IsDict(r.obj) => PyLen(r.obj.map[k]) <= MaxLen
      /\ heap' = [heap EXCEPT ![a] = r.obj]
      /\ populated' = [populated EXCEPT ![a] = @ \cup BoundNames(r.obj)]
      /\ call' = [op |-> "add", obj |-> a, other |-> b,
                  self_before |-> heap[a], other_before |-> heap[b]]
      /\ ret' = [status |-> r.status,
                 obj |-> CASE r.returns = "self" -> a
                           [] r.returns = "other" -> b
                           [] OTHER -> "none"]
      /\ UNCHANGED <<h5file, fs, env>>

\* The attribute names the caller looks up
LookupNames ==
  {"longitude", "cloudsat_index", "dem_surface_elevation", "no_such_field"}

\* o.name
GetattrStep(o, name) ==
  \E r \in {DataObject_getattr(heap[o], name)} :
      /\ call' = [op |-> "getattr", obj |-> o, name |-> name]
      /\ ret' = [status |-> r.status, value |-> r.value]
      /\ UNCHANGED <<heap, populated, h5file, fs, env>>

Filenames == {"None", "granule.h5"}

(***************************************************************************)
(* SpecReduce: the reducer applied to the single-shot group of a file      *)
(* drawn from every sequence of up to MaxFootprints footprint profiles.    *)
(***************************************************************************)
CloudyChoices == {0, 5, 15}

FootprintProfiles == [cloudy : CloudyChoices, pat : 1..4]

FootprintSeqs == UNION {[1..n -> FootprintProfiles] : n \in 1..MaxFootprints}

InitCommon ==
  /\ heap = [o \in Objs |-> CalipsoObject_init]
  /\ populated = [o \in Objs |-> {}]
  /\ h5file = "none"
  /\ call = NoCall
  /\ ret = NoRet

InitReduce ==
  /\ InitCommon
  /\ env = UtcEnv
  /\ fs \in {File(<<"Single_Shot_Detection">>, Len(ps), 3, "", ps) : ps \in FootprintSeqs}

NextReduce == RearrangeStep("a")

SpecReduce == InitReduce /\ [][NextReduce]_vars

\* What the claims about the reducer speak of, read off the raw arrays:
\* the number of footprints, a footprint's cloudy count, and the first-layer
\* value of shot s (0..14) of footprint f in a metric's raw array.
NumFootprints == Len(fs.ss["ssNumber_Layers_Found"].data) \div SingleShots

CloudyCount(f) ==
  SingleShots - Cardinality({s \in 0..(SingleShots - 1) :
      fs.ss["ssNumber_Layers_Found"].data[(f - 1) * SingleShots + s + 1] = 0})

FirstLayerOf(metric, f, s) ==
  fs.ss[metric].data[((f - 1) * SingleShots + s) * LayersPerShot + 1]

RECURSIVE ClampedSumUpTo(_, _, _)
ClampedSumUpTo(metric, f, s) ==
  IF s < 0 THEN 0
  ELSE (IF FirstLayerOf(metric, f, s) <= 0 THEN 0 ELSE FirstLayerOf(metric, f, s))
       + ClampedSumUpTo(metric, f, s - 1)

ClampedSum(metric, f) == ClampedSumUpTo(metric, f, SingleShots - 1)

\* The raw array each stored mean is computed from
MetricOf ==
  [n \in {"average_cloud_base_single_shots",
          "average_cloud_top_pressure_single_shots",
          "average_cloud_top_single_shots"} |->
     CASE n = "average_cloud_base_single_shots" -> "ssLayer_Base_Altitude"
       [] n = "average_cloud_top_pressure_single_shots" -> "ssLayer_Top_Pressure"
       [] OTHER -> "ssLayer_Top_Altitude"]

Reduced == call.op = "rearrange" /\ ret.status = "ok"

StoredMean(name, f) == heap[call.obj].map[name].data[f]

\* C2: after the reducer, for every footprint and each of the three metrics,
\* the stored (float32) mean is the clamped sum of the 15 first-layer values
\* divided by the cloudy count when that count is > 0, and -9.0 when it is 0.
C2_MeanOrSentinel ==
  Reduced =>
    \A n \in DOMAIN MetricOf : \A f \in 1..NumFootprints :
      StoredMean(n, f) =
        IF CloudyCount(f) > 0
        THEN AsFloat32(Rat(ClampedSum(MetricOf[n], f), CloudyCount(f)))
        ELSE Rat(-9, 1)

\* C2's example has happened: a footprint with cloudy count 5 and clamped
\* base sum 50 has the mean 10; and another mean needed rounding.
C2_Witness ==
  /\ Reduced
  /\ \E f \in 1..NumFootprints :
       /\ CloudyCount(f) = 5
       /\ ClampedSum("ssLayer_Base_Altitude", f) = 50
       /\ StoredMean("average_cloud_base_single_shots", f) = Rat(10, 1)
  /\ \E f \in 1..NumFootprints : \E n \in DOMAIN MetricOf :
       /\ CloudyCount(f) > 0
       /\ StoredMean(n, f) # Rat(ClampedSum(MetricOf[n], f), CloudyCount(f))

AllBaseNonPositive(f) ==
  \A s \in 0..(SingleShots - 1) : FirstLayerOf("ssLayer_Base_Altitude", f, s) <= 0

\* C3 as claimed: a footprint whose 15 first-layer base altitudes are all
\* <= 0 has the stored base mean -9.0, whatever its layer counts are.
C3_AllNonPositiveGivesSentinel ==
  Reduced =>
    \A f \in 1..NumFootprints :
      AllBaseNonPositive(f) =>
        StoredMean("average_cloud_base_single_shots", f) = Rat(-9, 1)

\* C3 amended: such a footprint has the mean -9.0 when its cloudy count is 0
\* and 0.0 when its cloudy count is > 0; it is never NaN.
C3_AllNonPositiveAmended ==
  Reduced =>
    \A f \in 1..NumFootprints :
      AllBaseNonPositive(f) =>
        /\ StoredMean("average_cloud_base_single_shots", f) =
             (IF CloudyCount(f) = 0 THEN Rat(-9, 1) ELSE Rat(0, 1))
        /\ ~IsNaN(StoredMean("average_cloud_base_single_shots", f))

\* Both cases of the amended C3 in one run of the reducer.
C3_Witness ==
  /\ Reduced
  /\ \E f \in 1..NumFootprints : AllBaseNonPositive(f) /\ CloudyCount(f) = 0
  /\ \E f \in 1..NumFootprints : AllBaseNonPositive(f) /\ CloudyCount(f) > 0

(***************************************************************************)
(* SpecLoad: read_calipso_h5 on a file drawn from every sequence of up to  *)
(* MaxDatasets distinct top-level names, with at most one unreadable name, *)
(* under an h5py with or without Dataset.value.                            *)
(***************************************************************************)
NameSeqs(maxlen) ==
  {q \in UNION {[1..n -> {DatasetNames[i] : i \in 1..Len(DatasetNames)}] : n \in 0..maxlen} :
     \A i, j \in 1..Len(q) : i # j => q[i] # q[j]}

\* The single-shot group of the files of the loader's specifications: one
\* footprint profile repeated for each profile of the file.
PlainShots(nprof) == [i \in 1..nprof |-> [cloudy |-> 5, pat |-> 3]]

LoadFiles ==
  {File(q, 1, 3, u, PlainShots(1)) :
     q \in NameSeqs(MaxDatasets), u \in {""} \cup {DatasetNames[i] : i \in 1..Len(DatasetNames)}}

InitLoad ==
  /\ InitCommon
  /\ env \in {[UtcEnv EXCEPT !.hasValue = v] : v \in BOOLEAN}
  /\ fs \in {f \in LoadFiles : f.unreadable = "" \/ HasName(f, f.unreadable)} \cup {NoFile}

NextLoad ==
  \/ Create("a")
  \/ \E filename \in Filenames : ReadCalipsoH5Step("a", filename)

SpecLoad == InitLoad /\ [][NextLoad]_vars

\* A load of the file has returned normally.
Loaded ==
  /\ call.op = "read_calipso_h5"
  /\ call.filename # "None"
  /\ ret.status = "ok"

\* The claim's eligible datasets and canonical names
Eligible(d) ==
  /\ d # "Single_Shot_Detection"
  /\ d \notin {"Lidar_Surface_Detection", "metadata_t", "metadata"}
  /\ d \notin scip_these_larger_variables_until_needed

Canonical(d) ==
  IF d = "Snow_Ice_Surface_Type" THEN "nsidc_surface_type"
  ELSE IF d = "Profile_Time" THEN "profile_time_tai"
  ELSE Lower(d)

\* Looking the name up on the collection yields the value.
StoredAs(o, name, value) ==
  LET g == DataObject_getattr(heap[o], name)
  IN  g.status = "ok" /\ g.value = value

\* C1 as claimed: after a load that returns normally, every eligible dataset
\* is in the collection under its canonical name with its own values.
C1_EveryEligibleDatasetStored ==
  Loaded =>
    \A i \in 1..Len(fs.names) :
      Eligible(fs.names[i]) =>
        StoredAs(call.obj, Canonical(fs.names[i]), DatasetValue(fs, fs.names[i]))

\* The last eligible dataset, in iteration order, with i's canonical name
LastWithCanonical(i) ==
  CHOOSE j \in i..Len(fs.names) :
    /\ Eligible(fs.names[j])
    /\ Canonical(fs.names[j]) = Canonical(fs.names[i])
    /\ \A k \in (j + 1)..Len(fs.names) :
         ~(Eligible(fs.names[k]) /\ Canonical(fs.names[k]) = Canonical(fs.names[i]))

NoMappingName ==
  \A i \in 1..Len(fs.names) :
    Eligible(fs.names[i]) => Canonical(fs.names[i]) # "all_arrays"

\* C1 amended: after a load that returns normally, when no eligible
\* dataset's canonical name is 'all_arrays', every eligible dataset's
\* canonical name is in the collection and holds the values of the last
\* eligible dataset, in iteration order, with that canonical name: the
\* dataset's own values unless a later one shares it.  When an eligible
\* dataset's canonical name is 'all_arrays', it is the last eligible dataset
\* and its array has taken the place of the collection's mapping.
C1_LastEligibleDatasetStored ==
  /\ (Loaded /\ NoMappingName) =>
       \A i \in 1..Len(fs.names) :
         Eligible(fs.names[i]) =>
           StoredAs(call.obj, Canonical(fs.names[i]),
                    DatasetValue(fs, fs.names[LastWithCanonical(i)]))
  /\ (Loaded /\ ~NoMappingName) =>
       \E i \in 1..Len(fs.names) :
         /\ Eligible(fs.names[i]) /\ Canonical(fs.names[i]) = "all_arrays"
         /\ \A k \in (i + 1)..Len(fs.names) : ~Eligible(fs.names[k])
         /\ heap[call.obj] = DatasetValue(fs, fs.names[i])

\* A load has stored a renamed dataset and has passed over a skipped one.
C1_Witness ==
  /\ Loaded /\ NoMappingName
  /\ \E i, j \in 1..Len(fs.names) :
       /\ fs.names[i] \in DOMAIN atrain_match_names
       /\ ~Eligible(fs.names[j])
       /\ StoredAs(call.obj, Canonical(fs.names[i]), DatasetValue(fs, fs.names[i]))

\* C4: a load that opened the file has closed the handle by the time the
\* call ends, whether it returned or raised.
C4_HandleClosedAtEnd ==
  (call.op = "read_calipso_h5" /\ call.filename # "None" /\ fs.exists) =>
    h5file = "closed"

(***************************************************************************)
(* SpecAdd: concatenations of two collections drawn from the collections   *)
(* of up to MaxProfiles profiles whose populated fields all have that many *)
(* rows: longitude None or 1-D, latitude None, 1-D or 2-D, and the         *)
(* non-schema field dem_surface_elevation absent or 2-D.                   *)
(***************************************************************************)
\* An array of the given shape whose values carry the collection's tag, the
\* field's code and the position.
Filled(shape, size, tag, code) ==
  Arr(shape, [i \in 1..size |-> 1000 * tag + 100 * code + i])

WithField(d, name, v) == IF v = NoneV THEN d ELSE DictSet(d, name, v)

CollectionsOf(tag, n) ==
  { WithField(
      DictSet(DictSet(CalipsoObject_init, "longitude", lon), "latitude", lat),
      "dem_surface_elevation", dem) :
      lon \in {NoneV, Filled(<<n>>, n, tag, 1)},
      lat \in {NoneV, Filled(<<n>>, n, tag, 2), Filled(<<n, 2>>, 2 * n, tag, 2)},
      dem \in {NoneV, Filled(<<n, 1>>, n, tag, 3)} }

Collections(tag) == UNION {CollectionsOf(tag, n) : n \in 0..MaxProfiles}

InitAdd ==
  /\ heap \in {[o \in Objs |-> IF o = "a" THEN x ELSE y] :
                 x \in Collections(1), y \in Collections(2)}
  /\ populated = [o \in Objs |-> BoundNames(heap[o])]
  /\ h5file = "none"
  /\ fs = NoFile
  /\ env = UtcEnv
  /\ call = NoCall
  /\ ret = NoRet

NextAdd == \E a, b \in Objs : AddStep(a, b)

SpecAdd == InitAdd /\ [][NextAdd]_vars

Added == call.op = "add"

\* The claim's empty collection: every field null or of length 0
AllNullOrZeroLength(d) ==
  \A k \in DOMAIN d.map : d.map[k] = NoneV \/ d.map[k].shape[1] = 0

AddedOk == call.op = "add" /\ ret.status = "ok"

\* The collection the latest concatenation returned
Result == heap[ret.obj]

BothNonEmpty ==
  ~AllNullOrZeroLength(call.self_before) /\ ~AllNullOrZeroLength(call.other_before)

\* C6 as claimed: with an empty operand on either side, the result has,
\* field for field, the values the other operand (A) had before.
C6_EmptyAbsorbedAlways ==
  Added =>
    /\ AllNullOrZeroLength(call.other_before) =>
         ret.status = "ok" /\ Result.map = call.self_before.map
    /\ AllNullOrZeroLength(call.self_before) =>
         ret.status = "ok" /\ Result.map = call.other_before.map

\* C6 amended: for a non-empty A and an empty E, A + E and E + A both return
\* A with every field as before; when A is empty too, A + E returns E.
C6_EmptyAbsorbed ==
  Added =>
    /\ (~AllNullOrZeroLength(call.self_before) /\ AllNullOrZeroLength(call.other_before)) =>
         /\ ret.status = "ok" /\ ret.obj = call.obj
         /\ Result = call.self_before
    /\ AllNullOrZeroLength(call.self_before) =>
         /\ ret.status = "ok" /\ ret.obj = call.other
         /\ Result = call.other_before

\* A non-empty collection has absorbed an empty one that holds a
\* zero-length array.
C6_Witness ==
  /\ Added
  /\ ~AllNullOrZeroLength(call.self_before)
  /\ AllNullOrZeroLength(call.other_before)
  /\ \E k \in DOMAIN call.other_before.map : IsArr(call.other_before.map[k])
  /\ Result = call.self_before

Is1D(v) == IsArr(v) /\ Ndim(v) = 1

\* C7: for two non-empty collections, a field that is 1-D in both holds in
\* the result A's values followed by B's, m + n in all.
C7_OneDimensionalJoined ==
  (AddedOk /\ BothNonEmpty) =>
    \A k \in DOMAIN call.self_before.map \cap DOMAIN call.other_before.map :
      LET x == call.self_before.map[k]
          y == call.other_before.map[k]
      IN  (Is1D(x) /\ Is1D(y)) =>
            /\ HasKey(Result, k)
            /\ Result.map[k].shape = <<PyLen(x) + PyLen(y)>>
            /\ Result.map[k].data = x.data \o y.data

C7_Witness ==
  /\ AddedOk /\ BothNonEmpty
  /\ \E k \in DOMAIN call.self_before.map \cap DOMAIN call.other_before.map :
       /\ Is1D(call.self_before.map[k]) /\ PyLen(call.self_before.map[k]) > 0
       /\ Is1D(call.other_before.map[k]) /\ PyLen(call.other_before.map[k]) > 0
       /\ call.self_before.map[k] # call.other_before.map[k]
       /\ PyLen(Result.map[k]) =
            PyLen(call.self_before.map[k]) + PyLen(call.other_before.map[k])

\* A field is populated in a mapping when it is a key bound to an array.
Populated(d, k) == HasKey(d, k) /\ IsArr(d.map[k])

\* C8: for two non-empty collections, a field populated in exactly one of
\* them holds in the result the value of the side where it is populated.
C8_PresentSideKept ==
  (AddedOk /\ BothNonEmpty) =>
    \A k \in DOMAIN call.self_before.map \cup DOMAIN call.other_before.map :
      /\ (Populated(call.self_before, k) /\ ~Populated(call.other_before, k)) =>
           (HasKey(Result, k) /\ Result.map[k] = call.self_before.map[k])
      /\ (~Populated(call.self_before, k) /\ Populated(call.other_before, k)) =>
           (HasKey(Result, k) /\ Result.map[k] = call.other_before.map[k])

\* All populated fields of a mapping have the same number of rows.
SameLength(d) ==
  \A j, k \in BoundNames(d) : PyLen(d.map[j]) = PyLen(d.map[k])

\* C9: the collections start with all populated fields of one length, and
\* every concatenation returns a collection of which that is still true.
C9_SameLengthKept == AddedOk => SameLength(Result)

(***************************************************************************)
(* SpecRead: read_calipso on a file with the three multi-column datasets   *)
(* (or lacking the time, or with too few columns), in a process whose time *)
(* zone has one standard offset now and had one on 1993-01-01.             *)
(***************************************************************************)
\* Seconds west of UTC: UTC+3, UTC+2, UTC and UTC-5
TzOffsets == {0 - 10800, 0 - 7200, 0, 18000}

ReadNameSeqs ==
  { <<"Latitude", "Longitude", "Profile_Time">>,
    <<"Latitude", "Longitude", "Profile_Time", "Single_Shot_Detection">>,
    <<"Latitude", "Longitude">> }

ReadFiles ==
  {File(q, n, c, "", PlainShots(n)) :
     q \in ReadNameSeqs, n \in 1..MaxProfiles, c \in 1..3}

InitRead ==
  /\ InitCommon
  /\ env \in [timezone : TzOffsets, timezone1993 : TzOffsets, hasValue : BOOLEAN]
  /\ fs \in ReadFiles

NextRead == \E filename \in Filenames : ReadCalipsoStep("a", filename)

SpecRead == InitRead /\ [][NextRead]_vars

ReadOk == call.op = "read_calipso" /\ ret.status = "ok"

\* C5: whatever the process's time zone, read_calipso stores
\* sec_1970 = profile_time_tai[:, 1] + 725846400.
C5_OffsetIsConstant ==
  ReadOk =>
    LET raw == DatasetValue(fs, "Profile_Time")
        sec == heap[call.obj].map["sec_1970"]
    IN  /\ Len(sec.data) = fs.nprof
        /\ \A i \in 1..fs.nprof :
             sec.data[i] = raw.data[(i - 1) * fs.ncol + 2] + 725846400

(***************************************************************************)
(* Spec: a caller creating, loading, concatenating and looking up.         *)
(***************************************************************************)
SpecFiles ==
  { File(<<"Latitude", "Longitude", "Profile_Time", "DEM_Surface_Elevation">>,
         1, 3, "", PlainShots(1)),
    File(<<"Latitude", "Longitude", "Profile_Time", "Single_Shot_Detection">>,
         1, 3, "", PlainShots(1)),
    File(<<"Latitude", "ALL_ARRAYS">>, 1, 3, "", PlainShots(1)) }

Init ==
  /\ InitCommon
  /\ env = UtcEnv
  /\ fs \in SpecFiles

Next ==
  \/ \E o \in Objs : Create(o)
  \/ \E o \in Objs : ReadCalipsoH5Step(o, "granule.h5")
  \/ \E o \in Objs : ReadCalipsoStep(o, "granule.h5")
  \/ \E a, b \in Objs : AddStep(a, b)
  \/ \E o \in Objs, name \in LookupNames : GetattrStep(o, name)

Spec == Init /\ [][Next]_vars

LookedUp == call.op = "getattr"

\* C10 as claimed: looking up a name that has never been populated with
\* data signals the missing-attribute error.
C10_NeverPopulatedRaises ==
  (LookedUp /\ call.name \notin populated[call.obj]) =>
    ret.status = "AttributeError"

\* C10 amended: looking up a name that is neither one of CalipsoObject's
\* predeclared fields nor has ever been populated signals the
\* missing-attribute error; looking up a predeclared field that was never
\* populated returns null.  On a collection whose mapping a loaded dataset
\* named 'all_arrays' has replaced, every such lookup fails with IndexError.
C10_UnknownNameRaises ==
  (LookedUp /\ call.name \notin populated[call.obj]) =>
    IF ~IsDict(heap[call.obj]) THEN ret.status = "IndexError"
    ELSE IF call.name \in SchemaNames
         THEN ret.status = "ok" /\ ret.value = NoneV
         ELSE ret.status = "AttributeError"

\* Both lookups have happened on a collection that was loaded and then
\* concatenated.
C10_Witness ==
  /\ LookedUp
  /\ ret.status = "AttributeError"
  /\ call.name = "dem_surface_elevation"
  /\ IsDict(heap[call.obj])
  /\ "longitude" \in populated[call.obj]
  /\ PyLen(heap[call.obj].map["longitude"]) > 1

====
